---- MODULE Spec2Model ----
(***************************************************************************)
(* A model of the high-throughput executor pipeline:                       *)
(*   - the client-side executor (htex.py): submit() and the                *)
(*     queue-management ("demultiplexer") thread;                          *)
(*   - the interchange (broker), whose code is not part of the sources     *)
(*     and is modelled from the specification's section 4.4;               *)
(*   - the fabric (fabric_threaded.py): the Daimyo coordinator with its    *)
(*     task-pull thread, result-push thread and main loop, and the MPI     *)
(*     worker ranks.                                                       *)
(***************************************************************************)
EXTENDS Integers, Sequences, FiniteSets, TLC

\* ---------------------------------------------------------------- bounds
NumWorkers == 2
NumTasks == 2
QueueSize == 2
MaxCapacity == 4
SocketHWM == 1
HeartbeatPeriod == 2
LiveWorkers == 1
MaxResults == 3
IntakeWorkers == 4
IntakeTasks == 5
SmallQueueSize == 1
SmallQueueTasks == 3
MaxBlocks == 4
MaxHandle == 2
MaxBeatAge == 3
MaxScaleOut == 2
CrowdWorkers == 12
CrowdQueued == 8
MaxStray == 1
StrayTag == 12

\* ------------------------------------------------------ program constants
RESULT_TAG == 10
TASK_REQUEST_TAG == 11
CapacityRequest == 4
MaxEventsPerRound == 10
BatchCap == 4

VARIABLES
    conf,                 \* [size, max_queue_size, ntasks]: comm.size, Daimyo's
                          \* max_queue_size argument, submissions the client makes
    \* client-side executor
    tasks,                \* self.tasks: task_id -> state of its Future
    next_id,              \* the next fresh task_id (uuid4)
    client_pc,            \* position of the submitting thread inside submit()
    client_msg,           \* submit()'s local msg
    outgoing_q,           \* client -> broker task socket
    incoming_q,           \* broker -> client result socket
    demux_pc,             \* position of _queue_management_worker
    set_calls,            \* task_id -> number of set_result/set_exception calls made
    \* broker (interchange)
    broker_alive,
    inbound,              \* inbound task buffer
    capacity,             \* outstanding capacity of the fabric
    dispatched,           \* tasks dispatched to the fabric so far
    returned,             \* results the fabric returned so far
    requested,            \* capacity the fabric requested so far
    \* fabric sockets
    task_incoming_in,     \* task_incoming, broker -> fabric direction
    task_incoming_out,    \* task_incoming, fabric -> broker direction
    result_outgoing,      \* fabric -> broker result socket
    \* Daimyo
    pending_task_queue,
    pending_result_queue,
    ready_worker_queue,
    kill_event,
    pull_pc,              \* position of pull_tasks
    pull_batch,           \* the received batch not yet put (for task in tasks)
    task_recv_counter,    \* pull_tasks' task_recv_counter
    beat_age,             \* clock ticks since last_beat
    push_pc,              \* position of push_results
    main_pc,              \* position of start()
    counter,              \* start()'s counter of MPI events in this round
    this_round,           \* iterations left of `for i in range(this_round)`
    main_msg,             \* the message recv returned, not yet put on a queue
    round_snapshot,       \* both queues as this round's qsize() calls saw them,
                          \* and the <<rank, task_id>> pairs sent in this round
    ready_observed,       \* task requests received by the main loop so far
    sent_log,             \* task_id -> ranks it was sent to, in order
    results_from,         \* rank -> results the main loop received from it
    results_pushed,       \* results push_results sent so far
    \* MPI transport and workers
    barrier,              \* ranks that have entered comm.Barrier()
    mpi_in,               \* rank -> messages sent to rank 0, not yet received
    mpi_out,              \* rank -> tasks sent by rank 0, not yet received
    worker_pc,
    worker_req,           \* rank -> the task it executes (0: none)
    worker_sent,          \* rank -> <<task requests sent, results sent, tasks received>>
    \* the executor's start() and shutdown()
    exec_conf,            \* [provider, init_blocks]: whether a provider is
                          \* configured, and its init_blocks
    start_pc,             \* position of start(), or the exception it raised
    is_alive,             \* self.is_alive
    engines,              \* self.engines
    returned_handles,     \* what each provider.submit() call returned, in order
    shut,                 \* shutdown() was called
    scale_pc              \* how the last scale_out() call ended ("idle": no call yet)

confVars   == <<conf>>
execVars   == <<exec_conf, start_pc, is_alive, engines, returned_handles, shut, scale_pc>>
clientVars == <<tasks, next_id, client_pc, client_msg, set_calls, demux_pc>>
brokerVars == <<broker_alive, inbound, capacity, dispatched, returned, requested>>
pullVars   == <<pull_pc, pull_batch, task_recv_counter, beat_age>>
pushVars   == <<push_pc, results_pushed>>
mainVars   == <<main_pc, counter, this_round, main_msg, round_snapshot,
                ready_observed, sent_log, results_from>>
workerVars == <<worker_pc, worker_req, worker_sent>>
pipeVars == <<outgoing_q, incoming_q, task_incoming_in, task_incoming_out,
              result_outgoing, pending_task_queue, pending_result_queue,
              ready_worker_queue, kill_event, barrier, mpi_in, mpi_out>>

vars == <<conf, tasks, next_id, client_pc, client_msg, outgoing_q, incoming_q,
          demux_pc, set_calls, broker_alive, inbound, capacity, dispatched,
          returned, requested, task_incoming_in, task_incoming_out,
          result_outgoing, pending_task_queue, pending_result_queue,
          ready_worker_queue, kill_event, pull_pc,
          pull_batch, task_recv_counter, beat_age, push_pc, main_pc, counter,
          this_round, main_msg, round_snapshot, ready_observed,
          sent_log, results_from, results_pushed, barrier, mpi_in, mpi_out, worker_pc,
          worker_req, worker_sent, exec_conf, start_pc, is_alive, engines,
          returned_handles, shut, scale_pc>>

\* ---------------------------------------------------------------- helpers
Min(a, b) == IF a <= b THEN a ELSE b

Ranks == 1 .. (conf.size - 1)
AllRanks == 0 .. (conf.size - 1)

NoMsg == [task_id |-> 0, fields |-> {}, good |-> TRUE]
\* The None message ("die request") of the result socket
NoneMsg == [task_id |-> 0, fields |-> {"None"}, good |-> TRUE]
\* The main loop's locals result / worker_rank when they hold no live value
\* (a local is cleared once its value is used, it is assigned before it is
\* read again)
NoRecv == [src |-> 0, body |-> NoMsg]
NoRound == [workers |-> << >>, tasks |-> << >>, sent |-> << >>]

RECURSIVE Xor(_, _)
Xor(a, b) ==
    IF a = 0 /\ b = 0 THEN 0
    ELSE ((((a % 2) + (b % 2)) % 2) + (2 * Xor(a \div 2, b \div 2)))

\* Daimyo.__init__: the capacities of the three queues
PendingTaskMax ==
    IF conf.max_queue_size = 0 THEN conf.size ELSE conf.max_queue_size
PendingResultMax == Xor(10, 4)
ReadyWorkerMax == PendingTaskMax + 10

\* A task as submit() builds it and a result package as worker() builds it.
\* fields: the keys besides task_id; good: whether its bytes deserialize.
TaskMsg(t) == [task_id |-> t]
ResultMsg(t, f) == [task_id |-> t, fields |-> {f}, good |-> TRUE]
StopBatch == [stop |-> TRUE, tasks |-> <<>>]
TaskBatch(ts) == [stop |-> FALSE, tasks |-> ts]

\* The sum of the values of the function f
SeqSumOf(f) ==
    LET RECURSIVE Sum(_)
        Sum(T) == IF T = {} THEN 0
                  ELSE LET x == CHOOSE y \in T : TRUE
                       IN  f[x] + Sum(T \ {x})
    IN  Sum(DOMAIN f)

\* ------------------------------------------------------------------ Init
\* The executor after __init__, before start(): any configuration of the
\* provider
ExecutorNew ==
    /\ exec_conf \in [provider : BOOLEAN, init_blocks : 0 .. MaxBlocks]
    /\ start_pc = "new"
    /\ is_alive = FALSE
    /\ engines = << >>
    /\ returned_handles = << >>
    /\ shut = FALSE
    /\ scale_pc = "idle"

\* The executor after start() has returned: one block, the fabric, was
\* launched by the provider
ExecutorStarted ==
    /\ exec_conf = [provider |-> TRUE, init_blocks |-> 1]
    /\ start_pc = "returned"
    /\ is_alive = TRUE
    /\ engines = <<1>>
    /\ returned_handles = <<1>>
    /\ shut = FALSE
    /\ scale_pc = "idle"

\* The pipeline's variables; started: whether start() has started the
\* demultiplexer thread and the broker process
PipelineInit(size, mqs, n, started) ==
    /\ conf = [size |-> size, max_queue_size |-> mqs, ntasks |-> n]
    /\ tasks = << >>
    /\ next_id = 1
    /\ client_pc = "idle"
    /\ client_msg = 0
    /\ outgoing_q = << >>
    /\ incoming_q = << >>
    /\ demux_pc = IF started THEN "run" ELSE "unstarted"
    /\ set_calls = [t \in 1 .. n |-> 0]
    /\ broker_alive = started
    /\ inbound = << >>
    /\ capacity = 0
    /\ dispatched = 0
    /\ returned = 0
    /\ requested = 0
    /\ task_incoming_in = << >>
    /\ task_incoming_out = << >>
    /\ result_outgoing = << >>
    /\ pending_task_queue = << >>
    /\ pending_result_queue = << >>
    /\ ready_worker_queue = << >>
    /\ kill_event = FALSE
    /\ pull_pc = "unstarted"
    /\ pull_batch = << >>
    /\ task_recv_counter = 0
    /\ beat_age = 0
    /\ push_pc = "unstarted"
    /\ main_pc = "start"
    /\ counter = 0
    /\ this_round = 0
    /\ main_msg = NoRecv
    /\ round_snapshot = NoRound
    /\ ready_observed = 0
    /\ sent_log = [t \in 1 .. n |-> << >>]
    /\ results_from = [r \in 1 .. (size - 1) |-> 0]
    /\ results_pushed = 0
    /\ barrier = {}
    /\ mpi_in = [r \in 1 .. (size - 1) |-> << >>]
    /\ mpi_out = [r \in 1 .. (size - 1) |-> << >>]
    /\ worker_pc = [r \in 1 .. (size - 1) |-> "start"]
    /\ worker_req = [r \in 1 .. (size - 1) |-> 0]
    /\ worker_sent = [r \in 1 .. (size - 1) |-> <<0, 0, 0>>]

\* The pipeline once the executor is started
InitWith(size, mqs, n) == ExecutorStarted /\ PipelineInit(size, mqs, n, TRUE)

Init == InitWith(NumWorkers + 1, QueueSize, NumTasks)

\* ------------------------------------------------- client-side executor
\* self.tasks[task_id] = Future(): the map with the new handle
NoInsert == tasks
WithFuture == tasks @@ (next_id :> "pending")

\* submit(), first half: a fresh task_id, and self.tasks[task_id] = Future()
SubmitInsert ==
    /\ client_pc = "idle"
    /\ next_id <= conf.ntasks
    /\ tasks' = WithFuture
    /\ client_msg' = next_id
    /\ next_id' = next_id + 1
    /\ client_pc' = "put"
    /\ UNCHANGED <<set_calls, demux_pc, outgoing_q, incoming_q>>
    /\ UNCHANGED <<confVars, execVars, brokerVars, pullVars, pushVars, mainVars, workerVars>>
    /\ UNCHANGED <<task_incoming_in, task_incoming_out, result_outgoing,
                   pending_task_queue, pending_result_queue, ready_worker_queue,
                   kill_event, barrier, mpi_in, mpi_out>>

\* submit(), second half: self.outgoing_q.put(msg); return the future
SubmitPut ==
    /\ client_pc = "put"
    /\ outgoing_q' = Append(outgoing_q, TaskMsg(client_msg))
    /\ client_pc' = "idle"
    /\ UNCHANGED <<tasks, next_id, client_msg, set_calls, demux_pc, incoming_q>>
    /\ UNCHANGED <<confVars, execVars, brokerVars, pullVars, pushVars, mainVars, workerVars>>
    /\ UNCHANGED <<task_incoming_in, task_incoming_out, result_outgoing,
                   pending_task_queue, pending_result_queue, ready_worker_queue,
                   kill_event, barrier, mpi_in, mpi_out>>

\* raise BadMessage(...): nothing catches it, the thread ends with it
IgnoreBadMessage == "run"
OnBadMessage == "BadMessage"

\* task_fut = self.tasks[tid] for a tid that is no key of the map raises
\* KeyError: nothing catches it, the thread ends with it
SkipMissingHandle == "run"
OnMissingHandle == "KeyError"

\* _queue_management_worker, the body of its loop for one received message.
\* strict: whether Future.set_result / set_exception of an already finished
\* Future raises InvalidStateError (Python 3.8 and later) or overwrites its
\* state (earlier).  The outcome is the thread's next position, the state
\* the Future is set to ("": no setter completed) and whether
\* self.tasks[tid] was looked up and a setter called.
HandleMessage(msg, strict) ==
    IF msg = NoneMsg
    THEN [pc |-> "exited", set |-> "", called |-> FALSE]
    ELSE IF msg.task_id = 0
    THEN [pc |-> OnBadMessage, set |-> "", called |-> FALSE]
    ELSE IF msg.task_id \notin DOMAIN tasks
    THEN [pc |-> OnMissingHandle, set |-> "", called |-> FALSE]
    ELSE IF "result" \in msg.fields
    THEN IF ~msg.good
         THEN [pc |-> "Error", set |-> "", called |-> FALSE]
         ELSE IF tasks[msg.task_id] # "pending" /\ strict
         THEN [pc |-> "InvalidStateError", set |-> "", called |-> TRUE]
         ELSE [pc |-> "run", set |-> "fulfilled", called |-> TRUE]
    ELSE IF "exception" \in msg.fields
    THEN IF tasks[msg.task_id] # "pending" /\ strict
         THEN [pc |-> "InvalidStateError", set |-> "", called |-> TRUE]
         ELSE [pc |-> "run",
               set |-> IF msg.good THEN "rejected" ELSE "DeserializationError",
               called |-> TRUE]
    ELSE [pc |-> OnBadMessage, set |-> "", called |-> FALSE]

\* _queue_management_worker: one message received from incoming_q
DemuxRecv ==
    /\ demux_pc = "run"
    /\ incoming_q # << >>
    /\ incoming_q' = Tail(incoming_q)
    /\ \E strict \in BOOLEAN :
         LET msg == Head(incoming_q)
             out == HandleMessage(msg, strict)
         IN  /\ demux_pc' = IF out.pc = "run" /\ ~is_alive THEN "exited"
                             ELSE out.pc
             /\ tasks' = IF out.set = "" THEN tasks
                         ELSE [tasks EXCEPT ![msg.task_id] = out.set]
             /\ set_calls' = IF out.called
                             THEN [set_calls EXCEPT ![msg.task_id] = @ + 1]
                             ELSE set_calls
    /\ UNCHANGED <<next_id, client_pc, client_msg, outgoing_q>>
    /\ UNCHANGED <<confVars, execVars, brokerVars, pullVars, pushVars, mainVars, workerVars>>
    /\ UNCHANGED <<task_incoming_in, task_incoming_out, result_outgoing,
                   pending_task_queue, pending_result_queue, ready_worker_queue,
                   kill_event, barrier, mpi_in, mpi_out>>

\* ---------------------------------------------------- broker (interchange)
\* A task read from the client-facing task socket into the inbound buffer
BrokerRecvTask ==
    /\ broker_alive
    /\ outgoing_q # << >>
    /\ inbound' = Append(inbound, Head(outgoing_q))
    /\ outgoing_q' = Tail(outgoing_q)
    /\ UNCHANGED <<broker_alive, capacity, dispatched, returned, requested>>
    /\ UNCHANGED <<confVars, execVars, clientVars, pullVars, pushVars, mainVars, workerVars>>
    /\ UNCHANGED <<incoming_q, task_incoming_in, task_incoming_out, result_outgoing,
                   pending_task_queue, pending_result_queue, ready_worker_queue,
                   kill_event, barrier, mpi_in, mpi_out>>

\* The counters of capacity stop at a value no run can use up: there are
\* never more than conf.ntasks tasks to dispatch
CapacityBound == IF conf.ntasks > MaxCapacity THEN conf.ntasks ELSE MaxCapacity

\* A capacity request of k (0: a heartbeat) increments the outstanding capacity
BrokerRecvRequest ==
    /\ broker_alive
    /\ task_incoming_out # << >>
    /\ capacity' = Min(capacity + Head(task_incoming_out), CapacityBound)
    /\ requested' = Min(requested + Head(task_incoming_out), CapacityBound)
    /\ task_incoming_out' = Tail(task_incoming_out)
    /\ UNCHANGED <<broker_alive, inbound, dispatched, returned>>
    /\ UNCHANGED <<confVars, execVars, clientVars, pullVars, pushVars, mainVars, workerVars>>
    /\ UNCHANGED <<outgoing_q, incoming_q, task_incoming_in, result_outgoing,
                   pending_task_queue, pending_result_queue, ready_worker_queue,
                   kill_event, barrier, mpi_in, mpi_out>>

\* The capacity the broker may use for the fabric: its outstanding capacity
IgnoreCapacity == BatchCap
Available == capacity

\* The size of the batch the broker routes to the fabric
BatchSize == Min(Min(Len(inbound), Available), BatchCap)

\* A batch dequeued from the inbound buffer and routed to the fabric
BrokerDispatch ==
    /\ broker_alive
    /\ inbound # << >>
    /\ Available > 0
    /\ task_incoming_in' =
           Append(task_incoming_in, TaskBatch(SubSeq(inbound, 1, BatchSize)))
    /\ inbound' = SubSeq(inbound, BatchSize + 1, Len(inbound))
    /\ capacity' = capacity - BatchSize
    /\ dispatched' = dispatched + BatchSize
    /\ UNCHANGED <<broker_alive, returned, requested>>
    /\ UNCHANGED <<confVars, execVars, clientVars, pullVars, pushVars, mainVars, workerVars>>
    /\ UNCHANGED <<outgoing_q, incoming_q, task_incoming_out, result_outgoing,
                   pending_task_queue, pending_result_queue, ready_worker_queue,
                   kill_event, barrier, mpi_in, mpi_out>>

\* A result of the fabric forwarded verbatim to the client-facing result socket
BrokerForward ==
    /\ broker_alive
    /\ result_outgoing # << >>
    /\ incoming_q' = Append(incoming_q, Head(result_outgoing))
    /\ result_outgoing' = Tail(result_outgoing)
    /\ returned' = returned + 1
    /\ UNCHANGED <<broker_alive, inbound, capacity, dispatched, requested>>
    /\ UNCHANGED <<confVars, execVars, clientVars, pullVars, pushVars, mainVars, workerVars>>
    /\ UNCHANGED <<outgoing_q, task_incoming_in, task_incoming_out,
                   pending_task_queue, pending_result_queue, ready_worker_queue,
                   kill_event, barrier, mpi_in, mpi_out>>

\* The broker is signalled: it sends the STOP sentinel to the fabric and exits
BrokerStop ==
    /\ broker_alive
    /\ broker_alive' = FALSE
    /\ task_incoming_in' = Append(task_incoming_in, StopBatch)
    /\ UNCHANGED <<inbound, capacity, dispatched, returned, requested>>
    /\ UNCHANGED <<confVars, execVars, clientVars, pullVars, pushVars, mainVars, workerVars>>
    /\ UNCHANGED <<outgoing_q, incoming_q, task_incoming_out, result_outgoing,
                   pending_task_queue, pending_result_queue, ready_worker_queue,
                   kill_event, barrier, mpi_in, mpi_out>>

\* ------------------------------------------------- Daimyo: pull_tasks
\* The thread starts: the first heartbeat (a request of 0) and last_beat
PullStart ==
    /\ pull_pc = "started"
    /\ Len(task_incoming_out) < SocketHWM
    /\ task_incoming_out' = Append(task_incoming_out, 0)
    /\ beat_age' = 0
    /\ pull_pc' = "loop"
    /\ UNCHANGED <<pull_batch, task_recv_counter>>
    /\ UNCHANGED <<confVars, execVars, clientVars, brokerVars, pushVars, mainVars, workerVars>>
    /\ UNCHANGED <<outgoing_q, incoming_q, task_incoming_in, result_outgoing,
                   pending_task_queue, pending_result_queue, ready_worker_queue,
                   kill_event, barrier, mpi_in, mpi_out>>

\* if ready_worker_count > 0
NeverRequest(ready_worker_count) == ready_worker_count > ReadyWorkerMax
ShouldRequest(ready_worker_count) == ready_worker_count > 0

\* The top of the loop: the kill flag, the size of the ready-worker queue and
\* the heartbeat when half a heartbeat period has passed
PullLoop ==
    /\ pull_pc = "loop"
    /\ IF kill_event
       THEN /\ pull_pc' = "done"
            /\ UNCHANGED <<beat_age, task_incoming_out>>
       ELSE /\ IF 2 * beat_age > HeartbeatPeriod
               THEN /\ Len(task_incoming_out) < SocketHWM
                    /\ task_incoming_out' = Append(task_incoming_out, 0)
                    /\ beat_age' = 0
               ELSE UNCHANGED <<beat_age, task_incoming_out>>
            /\ pull_pc' = IF ShouldRequest(Len(ready_worker_queue))
                          THEN "request" ELSE "poll"
    /\ UNCHANGED <<pull_batch, task_recv_counter>>
    /\ UNCHANGED <<confVars, execVars, clientVars, brokerVars, pushVars, mainVars, workerVars>>
    /\ UNCHANGED <<outgoing_q, incoming_q, task_incoming_in, result_outgoing,
                   pending_task_queue, pending_result_queue, ready_worker_queue,
                   kill_event, barrier, mpi_in, mpi_out>>

\* if ready_worker_count > 0: the capacity request
PullRequest ==
    /\ pull_pc = "request"
    /\ Len(task_incoming_out) < SocketHWM
    /\ task_incoming_out' = Append(task_incoming_out, CapacityRequest)
    /\ pull_pc' = "poll"
    /\ UNCHANGED <<pull_batch, task_recv_counter, beat_age>>
    /\ UNCHANGED <<confVars, execVars, clientVars, brokerVars, pushVars, mainVars, workerVars>>
    /\ UNCHANGED <<outgoing_q, incoming_q, task_incoming_in, result_outgoing,
                   pending_task_queue, pending_result_queue, ready_worker_queue,
                   kill_event, barrier, mpi_in, mpi_out>>

\* poller.poll(1) returns without a message
PullPollEmpty ==
    /\ pull_pc = "poll"
    /\ pull_pc' = "loop"
    /\ UNCHANGED <<pull_batch, task_recv_counter, beat_age>>
    /\ UNCHANGED <<confVars, execVars, clientVars, brokerVars, pushVars, mainVars, workerVars>>
    /\ UNCHANGED <<outgoing_q, incoming_q, task_incoming_in, task_incoming_out,
                   result_outgoing, pending_task_queue, pending_result_queue,
                   ready_worker_queue, kill_event, barrier, mpi_in, mpi_out>>

\* A message is received: the STOP sentinel sets the kill flag and leaves the
\* loop, a batch is counted and then put task by task
PullRecv ==
    /\ pull_pc = "poll"
    /\ task_incoming_in # << >>
    /\ task_incoming_in' = Tail(task_incoming_in)
    /\ IF Head(task_incoming_in).stop
       THEN /\ kill_event' = TRUE
            /\ pull_pc' = "done"
            /\ UNCHANGED <<pull_batch, task_recv_counter>>
       ELSE /\ task_recv_counter' =
                   task_recv_counter + Len(Head(task_incoming_in).tasks)
            /\ pull_batch' = Head(task_incoming_in).tasks
            /\ pull_pc' = IF Head(task_incoming_in).tasks = << >>
                          THEN "loop" ELSE "put"
            /\ UNCHANGED kill_event
    /\ UNCHANGED beat_age
    /\ UNCHANGED <<confVars, execVars, clientVars, brokerVars, pushVars, mainVars, workerVars>>
    /\ UNCHANGED <<outgoing_q, incoming_q, task_incoming_out, result_outgoing,
                   pending_task_queue, pending_result_queue, ready_worker_queue,
                   barrier, mpi_in, mpi_out>>

\* for task in tasks: self.pending_task_queue.put(task), which blocks while
\* the queue is full
PullPut ==
    /\ pull_pc = "put"
    /\ Len(pending_task_queue) < PendingTaskMax
    /\ pending_task_queue' = Append(pending_task_queue, Head(pull_batch))
    /\ pull_batch' = Tail(pull_batch)
    /\ pull_pc' = IF Tail(pull_batch) = << >> THEN "loop" ELSE "put"
    /\ UNCHANGED <<task_recv_counter, beat_age>>
    /\ UNCHANGED <<confVars, execVars, clientVars, brokerVars, pushVars, mainVars, workerVars>>
    /\ UNCHANGED <<outgoing_q, incoming_q, task_incoming_in, task_incoming_out,
                   result_outgoing, pending_result_queue, ready_worker_queue,
                   kill_event, barrier, mpi_in, mpi_out>>

\* ------------------------------------------------ Daimyo: push_results
\* while not kill_event.is_set()
PushLoop ==
    /\ push_pc = "loop"
    /\ push_pc' = IF kill_event THEN "done" ELSE "get"
    /\ UNCHANGED results_pushed
    /\ UNCHANGED <<confVars, execVars, clientVars, brokerVars, pullVars, mainVars, workerVars>>
    /\ UNCHANGED <<outgoing_q, incoming_q, task_incoming_in, task_incoming_out,
                   result_outgoing, pending_task_queue, pending_result_queue,
                   ready_worker_queue, kill_event, barrier, mpi_in, mpi_out>>

\* pending_result_queue.get returns a result, which is sent on result_outgoing
PushSend ==
    /\ push_pc = "get"
    /\ pending_result_queue # << >>
    /\ result_outgoing' = Append(result_outgoing, Head(pending_result_queue))
    /\ pending_result_queue' = Tail(pending_result_queue)
    /\ results_pushed' = results_pushed + 1
    /\ push_pc' = "loop"
    /\ UNCHANGED <<confVars, execVars, clientVars, brokerVars, pullVars, mainVars, workerVars>>
    /\ UNCHANGED <<outgoing_q, incoming_q, task_incoming_in, task_incoming_out,
                   pending_task_queue, ready_worker_queue, kill_event, barrier,
                   mpi_in, mpi_out>>

\* pending_result_queue.get times out on the empty queue (queue.Empty)
PushTimeout ==
    /\ push_pc = "get"
    /\ pending_result_queue = << >>
    /\ push_pc' = "loop"
    /\ UNCHANGED results_pushed
    /\ UNCHANGED <<confVars, execVars, clientVars, brokerVars, pullVars, mainVars, workerVars>>
    /\ UNCHANGED <<outgoing_q, incoming_q, task_incoming_in, task_incoming_out,
                   result_outgoing, pending_task_queue, pending_result_queue,
                   ready_worker_queue, kill_event, barrier, mpi_in, mpi_out>>

\* ------------------------------------------------- MPI transport
HasTag(q, tag) == \E i \in 1 .. Len(q) : q[i].tag = tag

\* The message of `tag` a receive from this source matches: the first one
\* (messages of one source do not overtake each other)
FirstWithTag(q, tag) ==
    CHOOSE i \in 1 .. Len(q) :
        /\ q[i].tag = tag
        /\ \A j \in 1 .. (i - 1) : q[j].tag # tag

RemoveAt(q, i) == SubSeq(q, 1, i - 1) \o SubSeq(q, i + 1, Len(q))

\* comm.Iprobe(status=info) with info.Get_tag() = tag: some source's next
\* message carries the tag
Probed(tag) ==
    \E p \in Ranks : mpi_in[p] # << >> /\ Head(mpi_in[p]).tag = tag

\* ------------------------------------------------- Daimyo: start()
\* comm.Barrier() returns in a rank once every rank of the communicator has
\* entered it
BarrierOpen == TRUE
BarrierPassed == barrier = AllRanks

\* self.comm.Barrier() is entered
MainBarrier ==
    /\ main_pc = "start"
    /\ barrier' = barrier \cup {0}
    /\ main_pc' = "barrier"
    /\ UNCHANGED <<counter, this_round, main_msg, round_snapshot,
                   ready_observed, sent_log, results_from>>
    /\ UNCHANGED <<confVars, execVars, clientVars, brokerVars, pullVars, pushVars, workerVars>>
    /\ UNCHANGED <<outgoing_q, incoming_q, task_incoming_in, task_incoming_out,
                   result_outgoing, pending_task_queue, pending_result_queue,
                   ready_worker_queue, kill_event, mpi_in, mpi_out>>

ProbeCounter == Min(MaxEventsPerRound, conf.size)

\* The barrier is passed; both threads are started and the loop begins
MainStartThreads ==
    /\ main_pc = "barrier"
    /\ BarrierPassed
    /\ pull_pc' = "started"
    /\ push_pc' = "loop"
    /\ main_pc' = "probe"
    /\ counter' = ProbeCounter
    /\ UNCHANGED <<this_round, main_msg, round_snapshot, ready_observed,
                   sent_log, results_from>>
    /\ UNCHANGED <<pull_batch, task_recv_counter, beat_age, results_pushed>>
    /\ UNCHANGED <<confVars, execVars, clientVars, brokerVars, workerVars>>
    /\ UNCHANGED <<outgoing_q, incoming_q, task_incoming_in, task_incoming_out,
                   result_outgoing, pending_task_queue, pending_result_queue,
                   ready_worker_queue, kill_event, barrier, mpi_in, mpi_out>>

\* A message with RESULT_TAG is probed; recv_result_from_workers receives a
\* result from any source
MainRecvResult ==
    /\ main_pc = "probe"
    /\ counter <= MaxEventsPerRound
    /\ Probed(RESULT_TAG)
    /\ \E r \in Ranks :
         /\ HasTag(mpi_in[r], RESULT_TAG)
         /\ main_msg' = [src |-> r,
                         body |-> mpi_in[r][FirstWithTag(mpi_in[r], RESULT_TAG)].body]
         /\ mpi_in' = [mpi_in EXCEPT
                          ![r] = RemoveAt(@, FirstWithTag(@, RESULT_TAG))]
         /\ results_from' = [results_from EXCEPT ![r] = @ + 1]
    /\ counter' = counter + 1
    /\ main_pc' = "put_result"
    /\ UNCHANGED <<this_round, round_snapshot, ready_observed, sent_log>>
    /\ UNCHANGED <<confVars, execVars, clientVars, brokerVars, pullVars, pushVars, workerVars>>
    /\ UNCHANGED <<outgoing_q, incoming_q, task_incoming_in, task_incoming_out,
                   result_outgoing, pending_task_queue, pending_result_queue,
                   ready_worker_queue, kill_event, barrier, mpi_out>>

\* self.pending_result_queue.put(result), which blocks while the queue is full
MainPutResult ==
    /\ main_pc = "put_result"
    /\ Len(pending_result_queue) < PendingResultMax
    /\ pending_result_queue' = Append(pending_result_queue, main_msg.body)
    /\ main_msg' = NoRecv
    /\ main_pc' = "probe"
    /\ UNCHANGED <<counter, this_round, round_snapshot,
                   ready_observed, sent_log, results_from>>
    /\ UNCHANGED <<confVars, execVars, clientVars, brokerVars, pullVars, pushVars, workerVars>>
    /\ UNCHANGED <<outgoing_q, incoming_q, task_incoming_in, task_incoming_out,
                   result_outgoing, pending_task_queue, ready_worker_queue,
                   kill_event, barrier, mpi_in, mpi_out>>

\* A message with TASK_REQUEST_TAG is probed; recv_task_request_from_workers
\* receives a task request from any source and returns its rank
MainRecvRequest ==
    /\ main_pc = "probe"
    /\ counter <= MaxEventsPerRound
    /\ Probed(TASK_REQUEST_TAG)
    /\ \E r \in Ranks :
         /\ HasTag(mpi_in[r], TASK_REQUEST_TAG)
         /\ main_msg' = [src |-> r, body |-> NoMsg]
         /\ mpi_in' = [mpi_in EXCEPT
                          ![r] = RemoveAt(@, FirstWithTag(@, TASK_REQUEST_TAG))]
    /\ ready_observed' = ready_observed + 1
    /\ counter' = counter + 1
    /\ main_pc' = "put_worker"
    /\ UNCHANGED <<this_round, round_snapshot, sent_log, results_from>>
    /\ UNCHANGED <<confVars, execVars, clientVars, brokerVars, pullVars, pushVars, workerVars>>
    /\ UNCHANGED <<outgoing_q, incoming_q, task_incoming_in, task_incoming_out,
                   result_outgoing, pending_task_queue, pending_result_queue,
                   ready_worker_queue, kill_event, barrier, mpi_out>>

\* self.ready_worker_queue.put(worker_rank), which blocks while the queue is full
MainPutWorker ==
    /\ main_pc = "put_worker"
    /\ Len(ready_worker_queue) < ReadyWorkerMax
    /\ ready_worker_queue' = Append(ready_worker_queue, main_msg.src)
    /\ main_msg' = NoRecv
    /\ main_pc' = "probe"
    /\ UNCHANGED <<counter, this_round, round_snapshot,
                   ready_observed, sent_log, results_from>>
    /\ UNCHANGED <<confVars, execVars, clientVars, brokerVars, pullVars, pushVars, workerVars>>
    /\ UNCHANGED <<outgoing_q, incoming_q, task_incoming_in, task_incoming_out,
                   result_outgoing, pending_task_queue, pending_result_queue,
                   kill_event, barrier, mpi_in, mpi_out>>

\* The probing loop ends (no message probed, the timer expired or the counter
\* passed its maximum); the sizes of both queues give this_round
MainProbeEnd ==
    /\ main_pc = "probe"
    /\ this_round' = Min(Len(ready_worker_queue), Len(pending_task_queue))
    /\ round_snapshot' = [workers |-> ready_worker_queue,
                          tasks |-> pending_task_queue, sent |-> << >>]
    /\ main_pc' = "dispatch"
    /\ counter' = 0
    /\ UNCHANGED <<main_msg, ready_observed, sent_log, results_from>>
    /\ UNCHANGED <<confVars, execVars, clientVars, brokerVars, pullVars, pushVars, workerVars>>
    /\ UNCHANGED <<outgoing_q, incoming_q, task_incoming_in, task_incoming_out,
                   result_outgoing, pending_task_queue, pending_result_queue,
                   ready_worker_queue, kill_event, barrier, mpi_in, mpi_out>>

\* The rank and the task one iteration of the dispatch loop takes, and the
\* queues after the two get() calls
LastWorker == ready_worker_queue[Len(ready_worker_queue)]
NextWorker == Head(ready_worker_queue)
NewestTask == pending_task_queue[Len(pending_task_queue)]
NextTask == Head(pending_task_queue)
KeepWorker == ready_worker_queue
AfterGetWorker == Tail(ready_worker_queue)
KeepTask == pending_task_queue
AfterGetTask == Tail(pending_task_queue)

\* for i in range(this_round): one rank and one task are taken from the
\* queues and the task is sent to the rank
MainDispatch ==
    /\ main_pc = "dispatch"
    /\ this_round > 0
    /\ mpi_out' = [mpi_out EXCEPT ![NextWorker] = Append(@, NextTask)]
    /\ sent_log' = [sent_log EXCEPT ![NextTask.task_id] = Append(@, NextWorker)]
    /\ ready_worker_queue' = AfterGetWorker
    /\ pending_task_queue' = AfterGetTask
    /\ this_round' = this_round - 1
    /\ round_snapshot' = [round_snapshot EXCEPT
                             !.sent = Append(@, <<NextWorker, NextTask.task_id>>)]
    /\ UNCHANGED <<main_pc, counter, main_msg, ready_observed, results_from>>
    /\ UNCHANGED <<confVars, execVars, clientVars, brokerVars, pullVars, pushVars, workerVars>>
    /\ UNCHANGED <<outgoing_q, incoming_q, task_incoming_in, task_incoming_out,
                   result_outgoing, pending_result_queue, kill_event, barrier,
                   mpi_in>>

\* The end of a round: the kill flag ends the loop
MainRoundEnd ==
    /\ main_pc = "dispatch"
    /\ this_round = 0
    /\ main_pc' = IF kill_event THEN "join" ELSE "probe"
    /\ counter' = ProbeCounter
    /\ round_snapshot' = NoRound
    /\ UNCHANGED <<this_round, main_msg, ready_observed, sent_log, results_from>>
    /\ UNCHANGED <<confVars, execVars, clientVars, brokerVars, pullVars, pushVars, workerVars>>
    /\ UNCHANGED <<outgoing_q, incoming_q, task_incoming_in, task_incoming_out,
                   result_outgoing, pending_task_queue, pending_result_queue,
                   ready_worker_queue, kill_event, barrier, mpi_in, mpi_out>>

\* Both threads are joined, start() returns and rank 0's script ends, which
\* ends the process and with it the Daimyo object and its queues
MainJoin ==
    /\ main_pc = "join"
    /\ pull_pc = "done"
    /\ push_pc = "done"
    /\ main_pc' = "exited"
    /\ pending_task_queue' = << >>
    /\ pending_result_queue' = << >>
    /\ ready_worker_queue' = << >>
    /\ UNCHANGED <<counter, this_round, main_msg, round_snapshot,
                   ready_observed, sent_log, results_from>>
    /\ UNCHANGED <<confVars, execVars, clientVars, brokerVars, pullVars, pushVars, workerVars>>
    /\ UNCHANGED <<outgoing_q, incoming_q, task_incoming_in, task_incoming_out,
                   result_outgoing, kill_event, barrier, mpi_in, mpi_out>>

\* ------------------------------------------------------------- worker()
\* comm.Barrier() is entered
WorkerBarrier(r) ==
    /\ worker_pc[r] = "start"
    /\ barrier' = barrier \cup {r}
    /\ worker_pc' = [worker_pc EXCEPT ![r] = "barrier"]
    /\ UNCHANGED <<worker_req, worker_sent>>
    /\ UNCHANGED <<confVars, execVars, clientVars, brokerVars, pullVars, pushVars, mainVars>>
    /\ UNCHANGED <<outgoing_q, incoming_q, task_incoming_in, task_incoming_out,
                   result_outgoing, pending_task_queue, pending_result_queue,
                   ready_worker_queue, kill_event, mpi_in, mpi_out>>

\* The barrier is passed
WorkerSynced(r) ==
    /\ worker_pc[r] = "barrier"
    /\ BarrierPassed
    /\ worker_pc' = [worker_pc EXCEPT ![r] = "request"]
    /\ UNCHANGED <<worker_req, worker_sent>>
    /\ UNCHANGED <<confVars, execVars, clientVars, brokerVars, pullVars, pushVars, mainVars>>
    /\ UNCHANGED <<outgoing_q, incoming_q, task_incoming_in, task_incoming_out,
                   result_outgoing, pending_task_queue, pending_result_queue,
                   ready_worker_queue, kill_event, barrier, mpi_in, mpi_out>>

\* comm.send(task_request, dest=0, tag=TASK_REQUEST_TAG)
WorkerRequest(r) ==
    /\ worker_pc[r] = "request"
    /\ mpi_in' = [mpi_in EXCEPT
                     ![r] = Append(@, [tag |-> TASK_REQUEST_TAG, body |-> NoMsg])]
    /\ worker_sent' = [worker_sent EXCEPT ![r][1] = @ + 1]
    /\ worker_pc' = [worker_pc EXCEPT ![r] = "recv"]
    /\ UNCHANGED worker_req
    /\ UNCHANGED <<confVars, execVars, clientVars, brokerVars, pullVars, pushVars, mainVars>>
    /\ UNCHANGED <<outgoing_q, incoming_q, task_incoming_in, task_incoming_out,
                   result_outgoing, pending_task_queue, pending_result_queue,
                   ready_worker_queue, kill_event, barrier, mpi_out>>

\* req = comm.recv(source=0, tag=rank); tid = req['task_id']
WorkerRecv(r) ==
    /\ worker_pc[r] = "recv"
    /\ mpi_out[r] # << >>
    /\ worker_req' = [worker_req EXCEPT ![r] = Head(mpi_out[r]).task_id]
    /\ mpi_out' = [mpi_out EXCEPT ![r] = Tail(@)]
    /\ worker_sent' = [worker_sent EXCEPT ![r][3] = @ + 1]
    /\ worker_pc' = [worker_pc EXCEPT ![r] = "execute"]
    /\ UNCHANGED <<confVars, execVars, clientVars, brokerVars, pullVars, pushVars, mainVars>>
    /\ UNCHANGED <<outgoing_q, incoming_q, task_incoming_in, task_incoming_out,
                   result_outgoing, pending_task_queue, pending_result_queue,
                   ready_worker_queue, kill_event, barrier, mpi_in>>

\* The result package of a task: execute_task returned (raised = FALSE) or
\* raised an Exception
ResultPackage(tid, raised) ==
    ResultMsg(tid, IF raised THEN "exception" ELSE "result")

\* Where the worker goes after it sent the result package: back to the top
\* of `while True`
LeaveOnException(raised) == IF raised THEN "exited" ELSE "request"
AfterResult(raised) == "request"

\* The user code of a task: the callable submitted with an even task_id
\* raises an Exception, the one submitted with an odd task_id returns
Raises(tid) == tid % 2 = 0

\* execute_task(req['buffer']) returns or raises; the result package is
\* pickled and sent with RESULT_TAG
WorkerExecute(r) ==
    /\ worker_pc[r] = "execute"
    /\ mpi_in' = [mpi_in EXCEPT
           ![r] = Append(@, [tag |-> RESULT_TAG,
                             body |-> ResultPackage(worker_req[r],
                                                    Raises(worker_req[r]))])]
    /\ worker_pc' = [worker_pc EXCEPT ![r] = AfterResult(Raises(worker_req[r]))]
    /\ worker_req' = [worker_req EXCEPT ![r] = 0]
    /\ worker_sent' = [worker_sent EXCEPT ![r][2] = @ + 1]
    /\ UNCHANGED <<confVars, execVars, clientVars, brokerVars, pullVars, pushVars, mainVars>>
    /\ UNCHANGED <<outgoing_q, incoming_q, task_incoming_in, task_incoming_out,
                   result_outgoing, pending_task_queue, pending_result_queue,
                   ready_worker_queue, kill_event, barrier, mpi_out>>

\* ------------------------------------------------------ specifications
Client == SubmitInsert \/ SubmitPut
Broker == BrokerRecvTask \/ BrokerRecvRequest \/ BrokerDispatch \/ BrokerForward
Puller == PullStart \/ PullLoop \/ PullRequest \/ PullPollEmpty \/ PullRecv \/ PullPut
Pusher == PushLoop \/ PushSend \/ PushTimeout
Main == \/ MainBarrier \/ MainStartThreads \/ MainRecvResult \/ MainPutResult
        \/ MainRecvRequest \/ MainPutWorker \/ MainProbeEnd \/ MainDispatch
        \/ MainRoundEnd
Worker(r) == \/ WorkerBarrier(r) \/ WorkerSynced(r) \/ WorkerRequest(r)
             \/ WorkerRecv(r) \/ WorkerExecute(r)

\* The pipeline without a shutdown
NextRun ==
    \/ Client \/ DemuxRecv \/ Broker \/ Puller \/ Pusher \/ Main
    \/ \E r \in Ranks : Worker(r)

\* The pipeline with the broker's shutdown of the fabric
Next == NextRun \/ BrokerStop \/ MainJoin

Spec == Init /\ [][Next]_vars

SpecRun == Init /\ [][NextRun]_vars

\* Fair scheduling of every thread and process.  Each step of a thread that
\* stays enabled until it is taken is weakly fair.  poll() and Iprobe() are
\* tried again and again between time-outs: a message that is there is
\* received by one of the tries (strong fairness).
ThreadFairness ==
    /\ WF_vars(SubmitInsert) /\ WF_vars(SubmitPut) /\ WF_vars(DemuxRecv)
    /\ WF_vars(BrokerRecvTask) /\ WF_vars(BrokerRecvRequest)
    /\ WF_vars(BrokerDispatch) /\ WF_vars(BrokerForward)
    /\ WF_vars(PullStart) /\ WF_vars(PullLoop) /\ WF_vars(PullRequest)
    /\ WF_vars(PullPollEmpty) /\ SF_vars(PullRecv) /\ WF_vars(PullPut)
    /\ WF_vars(PushLoop) /\ WF_vars(PushSend) /\ WF_vars(PushTimeout)
    /\ WF_vars(MainBarrier) /\ WF_vars(MainStartThreads)
    /\ SF_vars(MainRecvResult) /\ WF_vars(MainPutResult)
    /\ SF_vars(MainRecvRequest) /\ WF_vars(MainPutWorker)
    /\ WF_vars(MainProbeEnd) /\ WF_vars(MainDispatch) /\ WF_vars(MainRoundEnd)
    /\ WF_vars(MainJoin)

Fairness == ThreadFairness /\ \A r \in 1 .. LiveWorkers : WF_vars(Worker(r))

\* One live worker, no shutdown of the broker, fair scheduling
InitLive == InitWith(LiveWorkers + 1, QueueSize, NumTasks)
SpecLive == InitLive /\ [][NextRun]_vars /\ Fairness

\* The demultiplexer against any sequence of messages on its result socket:
\* a message of any shape arrives, for any task_id, any number of times
ArrivingMessages ==
    {[task_id |-> t, fields |-> fs, good |-> g] :
        t \in 1 .. conf.ntasks,
        fs \in {{"result"}, {"exception"}, {"other"}, {"result", "exception"}},
        g \in BOOLEAN}
    \cup {NoneMsg, NoMsg}

ResultArrives ==
    /\ Len(incoming_q) + SeqSumOf(set_calls) < MaxResults
    /\ \E msg \in ArrivingMessages : incoming_q' = Append(incoming_q, msg)
    /\ UNCHANGED <<confVars, execVars, clientVars, brokerVars, pullVars, pushVars,
                   mainVars, workerVars>>
    /\ UNCHANGED <<outgoing_q, task_incoming_in, task_incoming_out,
                   result_outgoing, pending_task_queue, pending_result_queue,
                   ready_worker_queue, kill_event, barrier, mpi_in, mpi_out>>

NextDemux == Client \/ DemuxRecv \/ ResultArrives
SpecDemux == Init /\ [][NextDemux]_vars

\* -------------------------------------------------- a backlog of results
\* A fabric of one worker whose result-push thread has not run since it
\* started: BacklogTasks tasks were submitted and received by the fabric, the
\* results of all but the last two are on the pending-result queue, the
\* worker executes the last but one and the last is on the pending-task
\* queue.  The pipeline is in this state when the worker has been served
\* task after task while push_results waited for the interpreter.
BacklogTasks == PendingResultMax + 1

InitBacklog ==
    /\ ExecutorStarted
    /\ conf = [size |-> 2, max_queue_size |-> QueueSize, ntasks |-> BacklogTasks]
    /\ tasks = [t \in 1 .. BacklogTasks |-> "pending"]
    /\ next_id = BacklogTasks + 1
    /\ client_pc = "idle"
    /\ client_msg = BacklogTasks
    /\ outgoing_q = << >>
    /\ incoming_q = << >>
    /\ demux_pc = "run"
    /\ set_calls = [t \in 1 .. BacklogTasks |-> 0]
    /\ broker_alive = TRUE
    /\ inbound = << >>
    /\ capacity = 1
    /\ dispatched = BacklogTasks
    /\ returned = 0
    /\ requested = BacklogTasks
    /\ task_incoming_in = << >>
    /\ task_incoming_out = << >>
    /\ result_outgoing = << >>
    /\ pending_task_queue = <<TaskMsg(BacklogTasks)>>
    /\ pending_result_queue =
           [t \in 1 .. (BacklogTasks - 2) |->
               ResultMsg(t, IF t % 2 = 0 THEN "exception" ELSE "result")]
    /\ ready_worker_queue = << >>
    /\ kill_event = FALSE
    /\ pull_pc = "loop"
    /\ pull_batch = << >>
    /\ task_recv_counter = BacklogTasks
    /\ beat_age = 0
    /\ push_pc = "loop"
    /\ results_pushed = 0
    /\ main_pc = "probe"
    /\ counter = 2
    /\ this_round = 0
    /\ main_msg = NoRecv
    /\ round_snapshot = NoRound
    /\ ready_observed = BacklogTasks - 1
    /\ sent_log = [t \in 1 .. BacklogTasks |->
                      IF t < BacklogTasks THEN <<1>> ELSE << >>]
    /\ results_from = <<BacklogTasks - 2>>
    /\ barrier = {0, 1}
    /\ mpi_in = << << >> >>
    /\ mpi_out = << << >> >>
    /\ worker_pc = <<"execute">>
    /\ worker_req = <<BacklogTasks - 1>>
    /\ worker_sent = << <<BacklogTasks - 1, BacklogTasks - 2, BacklogTasks - 1>> >>

\* What the fabric has left to do from there, and the broker's shutdown
NextBacklog ==
    \/ BrokerRecvRequest \/ BrokerStop
    \/ PullLoop \/ PullRequest \/ PullPollEmpty \/ PullRecv
    \/ Pusher
    \/ MainRecvResult \/ MainPutResult \/ MainRecvRequest \/ MainPutWorker
    \/ MainProbeEnd \/ MainDispatch \/ MainRoundEnd \/ MainJoin
    \/ WorkerRequest(1) \/ WorkerRecv(1) \/ WorkerExecute(1)
FairnessBacklog ==
    /\ WF_vars(BrokerRecvRequest)
    /\ WF_vars(PullLoop) /\ WF_vars(PullRequest) /\ WF_vars(PullPollEmpty)
    /\ SF_vars(PullRecv)
    /\ WF_vars(PushLoop) /\ WF_vars(PushSend) /\ WF_vars(PushTimeout)
    /\ SF_vars(MainRecvResult) /\ WF_vars(MainPutResult)
    /\ SF_vars(MainRecvRequest) /\ WF_vars(MainPutWorker)
    /\ WF_vars(MainProbeEnd) /\ WF_vars(MainDispatch) /\ WF_vars(MainRoundEnd)
    /\ WF_vars(MainJoin)
    /\ WF_vars(WorkerRequest(1)) /\ WF_vars(WorkerRecv(1))
    /\ WF_vars(WorkerExecute(1))
SpecBacklog == InitBacklog /\ [][NextBacklog]_vars /\ FairnessBacklog

\* ------------------------------------------- the executor's start()
\* start(): the two sockets, is_alive, the demultiplexer thread and, in
\* _start_local_queue_process, the broker process
StartSpawn ==
    /\ start_pc = "new"
    /\ is_alive' = TRUE
    /\ demux_pc' = "run"
    /\ broker_alive' = TRUE
    /\ start_pc' = "wait_ports"
    /\ UNCHANGED <<exec_conf, engines, returned_handles, shut, scale_pc>>
    /\ UNCHANGED <<tasks, next_id, client_pc, client_msg, set_calls>>
    /\ UNCHANGED <<inbound, capacity, dispatched, returned, requested>>
    /\ UNCHANGED <<confVars, pullVars, pushVars, mainVars, workerVars, pipeVars>>

\* comm_q.get(block=True, timeout=120) returns the worker-facing port pair
StartPorts ==
    /\ start_pc = "wait_ports"
    /\ start_pc' = "launch"
    /\ UNCHANGED <<exec_conf, is_alive, engines, returned_handles, shut, scale_pc>>
    /\ UNCHANGED <<confVars, clientVars, brokerVars, pullVars, pushVars,
                   mainVars, workerVars, pipeVars>>

\* comm_q.get raises queue.Empty after 120 s:
\* raise Exception("Interchange failed to start")
StartTimeout ==
    /\ start_pc = "wait_ports"
    /\ start_pc' = "Exception"
    /\ UNCHANGED <<exec_conf, is_alive, engines, returned_handles, shut, scale_pc>>
    /\ UNCHANGED <<confVars, clientVars, brokerVars, pullVars, pushVars,
                   mainVars, workerVars, pipeVars>>

\* if not engine
AnyHandle(engine) == FALSE
Falsy(engine) == engine = 0

\* One iteration of `for i in range(self.provider.init_blocks)`:
\* provider.submit returns a handle (0: a falsy one)
StartSubmitBlock ==
    /\ start_pc = "launch"
    /\ exec_conf.provider
    /\ Len(returned_handles) < exec_conf.init_blocks
    /\ \E engine \in 0 .. MaxHandle :
         /\ returned_handles' = Append(returned_handles, engine)
         /\ IF Falsy(engine)
            THEN /\ start_pc' = "ScalingFailed"
                 /\ UNCHANGED engines
            ELSE /\ engines' = Append(engines, engine)
                 /\ UNCHANGED start_pc
    /\ UNCHANGED <<exec_conf, is_alive, shut, scale_pc>>
    /\ UNCHANGED <<confVars, clientVars, brokerVars, pullVars, pushVars,
                   mainVars, workerVars, pipeVars>>

\* start() returns: the loop is over, or no provider is configured
StartReturn ==
    /\ start_pc = "launch"
    /\ exec_conf.provider => Len(returned_handles) = exec_conf.init_blocks
    /\ start_pc' = "returned"
    /\ UNCHANGED <<exec_conf, is_alive, engines, returned_handles, shut, scale_pc>>
    /\ UNCHANGED <<confVars, clientVars, brokerVars, pullVars, pushVars,
                   mainVars, workerVars, pipeVars>>

InitStart == ExecutorNew /\ PipelineInit(NumWorkers + 1, QueueSize, NumTasks, FALSE)
NextStart ==
    StartSpawn \/ StartPorts \/ StartTimeout \/ StartSubmitBlock \/ StartReturn
SpecStart == InitStart /\ [][NextStart]_vars

\* shutdown(): self.queue_proc.terminate(); return True
Shutdown ==
    /\ start_pc = "returned"
    /\ ~shut
    /\ shut' = TRUE
    /\ broker_alive' = FALSE
    /\ UNCHANGED <<exec_conf, start_pc, is_alive, engines, returned_handles, scale_pc>>
    /\ UNCHANGED <<inbound, capacity, dispatched, returned, requested>>
    /\ UNCHANGED <<confVars, clientVars, pullVars, pushVars, mainVars,
                   workerVars, pipeVars>>

\* The client side of a started executor up to and after shutdown(); the
\* demultiplexer thread runs whenever it can
NextShutdown == Client \/ DemuxRecv \/ ResultArrives \/ Shutdown
SpecShutdown == Init /\ [][NextShutdown]_vars /\ WF_vars(DemuxRecv)

\* The intake of a fabric of IntakeWorkers workers.  Its initial state is the
\* one the pipeline is in when the ranks have passed the barrier, every
\* worker has sent its first task request, the main loop has put all of them
\* on the ready-worker queue and both threads run, before the first
\* submit().  From there tasks are submitted, requested, dispatched by the
\* broker, pulled, paired and received by the workers; no worker finishes a
\* task.  Every behaviour of SpecIntake is the tail of a behaviour of the
\* whole pipeline.
IdleFabric(size) ==
    /\ barrier = 0 .. (size - 1)
    /\ main_pc = "probe"
    /\ counter = Min(MaxEventsPerRound, size)
    /\ this_round = 0
    /\ main_msg = NoRecv
    /\ round_snapshot = NoRound
    /\ ready_worker_queue = [r \in 1 .. (size - 1) |-> r]
    /\ ready_observed = size - 1
    /\ results_from = [r \in 1 .. (size - 1) |-> 0]
    /\ pull_pc = "loop"
    /\ pull_batch = << >>
    /\ task_recv_counter = 0
    /\ beat_age = 0
    /\ push_pc = "loop"
    /\ results_pushed = 0
    /\ kill_event = FALSE
    /\ pending_task_queue = << >>
    /\ pending_result_queue = << >>
    /\ mpi_in = [r \in 1 .. (size - 1) |-> << >>]
    /\ mpi_out = [r \in 1 .. (size - 1) |-> << >>]
    /\ worker_pc = [r \in 1 .. (size - 1) |-> "recv"]
    /\ worker_req = [r \in 1 .. (size - 1) |-> 0]
    /\ worker_sent = [r \in 1 .. (size - 1) |-> <<1, 0, 0>>]

InitIntake ==
    /\ conf = [size |-> IntakeWorkers + 1, max_queue_size |-> QueueSize,
               ntasks |-> IntakeTasks]
    /\ tasks = << >>
    /\ next_id = 1
    /\ client_pc = "idle"
    /\ client_msg = 0
    /\ outgoing_q = << >>
    /\ incoming_q = << >>
    /\ demux_pc = "run"
    /\ set_calls = [t \in 1 .. IntakeTasks |-> 0]
    /\ sent_log = [t \in 1 .. IntakeTasks |-> << >>]
    /\ ExecutorStarted
    /\ broker_alive = TRUE
    /\ inbound = << >>
    /\ capacity = 0
    /\ dispatched = 0
    /\ returned = 0
    /\ requested = 0
    /\ task_incoming_in = << >>
    /\ task_incoming_out = << >>
    /\ result_outgoing = << >>
    /\ IdleFabric(IntakeWorkers + 1)

NextIntake ==
    \/ Client
    \/ BrokerRecvTask \/ BrokerRecvRequest \/ BrokerDispatch
    \/ PullLoop \/ PullRequest \/ PullPollEmpty \/ PullRecv \/ PullPut
    \/ MainProbeEnd \/ MainDispatch \/ MainRoundEnd
    \/ \E r \in Ranks : WorkerRecv(r)
SpecIntake == InitIntake /\ [][NextIntake]_vars

\* A fabric of one worker whose coordinator was given max_queue_size = 1
InitSmallQueue == InitWith(2, SmallQueueSize, SmallQueueTasks)
SpecSmallQueue == InitSmallQueue /\ [][Next]_vars

\* ------------------------------------------------------------ the clock
\* time.time() > last_beat + heartbeat_period / 2
HeartbeatDue == 2 * beat_age > HeartbeatPeriod

\* Every worker runs a task or has one waiting for it
AllWorkersBusy ==
    \A r \in Ranks :
        \/ worker_pc[r] = "execute"
        \/ worker_pc[r] = "recv" /\ mpi_out[r] # << >>

\* One unit of time passes while pull_tasks runs.  The steps of the threads
\* and of the broker take no time compared with the heartbeat period, only
\* the user code of a task does: once a heartbeat is due, time passes only
\* if pull_tasks is blocked, the broker has no request to read and every
\* worker is busy.
Tick ==
    /\ pull_pc \in {"loop", "request", "poll", "put"}
    /\ beat_age < MaxBeatAge
    /\ HeartbeatDue =>
          /\ ~ENABLED Puller
          /\ ~ENABLED BrokerRecvRequest
          /\ AllWorkersBusy
    /\ beat_age' = beat_age + 1
    /\ UNCHANGED <<pull_pc, pull_batch, task_recv_counter>>
    /\ UNCHANGED <<confVars, execVars, clientVars, brokerVars, pushVars,
                   mainVars, workerVars, pipeVars>>

\* The pipeline of the small fabric with the clock
NextBeat == NextRun \/ Tick
SpecBeat == InitSmallQueue /\ [][NextBeat]_vars

\* =================================================================
\* Claims
\* =================================================================
SeqSum(f, S) == LET RECURSIVE Sum(_)
                    Sum(T) == IF T = {} THEN 0
                              ELSE LET x == CHOOSE y \in T : TRUE
                                   IN  f[x] + Sum(T \ {x})
                IN  Sum(S)

\* How often x occurs in the sequence q
Count(q, x) == Cardinality({i \in 1 .. Len(q) : q[i] = x})

TaskIds == 1 .. conf.ntasks

\* Tasks the main loop sent to rank r so far
SentTo(r) == SeqSum([t \in TaskIds |-> Count(sent_log[t], r)], TaskIds)

\* C3: at-most-once delivery: every task is sent to at most one worker rank,
\* and no task_id is sent to a worker more than once.
C3_AtMostOnce == \A t \in TaskIds : Len(sent_log[t]) <= 1

\* Both tasks were sent, to two different ranks
C3_Witness ==
    /\ Len(sent_log[1]) = 1
    /\ Len(sent_log[2]) = 1
    /\ sent_log[1] # sent_log[2]

\* How many messages of the sequence q carry task_id t
CountId(q, t) == Cardinality({i \in 1 .. Len(q) : q[i].task_id = t})

\* The stages of the pipeline, each as the number of places that hold task t
ClientPending(t) ==
    (IF client_pc = "put" /\ client_msg = t THEN 1 ELSE 0) + CountId(outgoing_q, t)
BrokerPending(t) == CountId(inbound, t)
FabricPending(t) ==
    Cardinality(UNION {{<<i, j>> : j \in {k \in 1 .. Len(task_incoming_in[i].tasks) :
                                           task_incoming_in[i].tasks[k].task_id = t}} :
                       i \in 1 .. Len(task_incoming_in)})
    + CountId(pull_batch, t) + CountId(pending_task_queue, t)
AssignedToWorker(t) ==
    Cardinality({r \in Ranks : worker_req[r] = t})
    + SeqSum([r \in Ranks |-> CountId(mpi_out[r], t)], Ranks)
ResultInFlight(t) ==
    SeqSum([r \in Ranks |->
               Cardinality({i \in 1 .. Len(mpi_in[r]) : mpi_in[r][i].body.task_id = t})],
           Ranks)
    + (IF main_msg.body.task_id = t THEN 1 ELSE 0)
    + CountId(pending_result_queue, t) + CountId(result_outgoing, t)
    + CountId(incoming_q, t)
Settled(t) == IF tasks[t] # "pending" THEN 1 ELSE 0

StagesOf(t) ==
    {s \in {"client-pending", "broker-pending", "fabric-pending",
            "assigned-to-worker", "result-in-flight", "settled"} :
        CASE s = "client-pending" -> ClientPending(t) > 0
          [] s = "broker-pending" -> BrokerPending(t) > 0
          [] s = "fabric-pending" -> FabricPending(t) > 0
          [] s = "assigned-to-worker" -> AssignedToWorker(t) > 0
          [] s = "result-in-flight" -> ResultInFlight(t) > 0
          [] s = "settled" -> Settled(t) > 0}

\* C4: at every instant each submitted task is in exactly one of the stages
\* client-pending, broker-pending, fabric-pending, assigned-to-worker,
\* result-in-flight, settled: never in two and never in none, also after a
\* STOP shutdown of the fabric.
C4_ExactlyOneStage == \A t \in DOMAIN tasks : Cardinality(StagesOf(t)) = 1

\* C5: the tasks the broker dispatched to the fabric minus the results the
\* fabric returned never exceed the capacity the fabric requested, and the
\* broker never dispatches more than the outstanding declared capacity.
\* (requested and capacity saturate at MaxCapacity, which is at least the
\* number of tasks, so both comparisons are exact.)
C5_WithinCapacity ==
    /\ dispatched - returned <= requested
    /\ dispatched <= requested
    /\ capacity >= 0

\* A batch of two tasks was dispatched on one capacity request, one result is back
C5_Witness == dispatched = 2 /\ returned = 1 /\ requested = CapacityRequest

\* C8: dispatch inside the fabric is strict FIFO on both sides: in every
\* round of the main loop the k-th task sent is the k-th oldest task of the
\* pending-task queue and goes to the k-th oldest rank of the ready-worker
\* queue, and the round sends exactly min(ready workers, pending tasks)
\* pairs, whatever the task-pull thread enqueues meanwhile.
C8_FifoDispatch ==
    main_pc = "dispatch" =>
      /\ \A k \in 1 .. Len(round_snapshot.sent) :
            /\ k <= Len(round_snapshot.workers)
            /\ k <= Len(round_snapshot.tasks)
            /\ round_snapshot.sent[k] =
                  <<round_snapshot.workers[k], round_snapshot.tasks[k].task_id>>
      /\ this_round = 0 =>
            Len(round_snapshot.sent) =
                Min(Len(round_snapshot.workers), Len(round_snapshot.tasks))

\* A round that sent two pairs
C8_Witness ==
    /\ main_pc = "dispatch"
    /\ this_round = 0
    /\ Len(round_snapshot.sent) = 2

\* C9 as claimed: for every rank, the tasks the coordinator sent to it minus
\* the results the coordinator received from it is 0 or 1.
C9_Orig == \A r \in Ranks : SentTo(r) - results_from[r] \in {0, 1}

\* C9: at most one task is in flight per worker: for every rank, the tasks
\* the coordinator sent to it minus the results the rank has sent is 0 or 1.
C9_OneInFlight == \A r \in Ranks : SentTo(r) - worker_sent[r][2] \in {0, 1}

\* A rank has its second task while the coordinator has not yet received
\* the result of its first
C9_Witness ==
    \E r \in Ranks : SentTo(r) = 2 /\ worker_sent[r][2] = 1 /\ results_from[r] = 0

C2_SettledOnce == \A t \in TaskIds : set_calls[t] <= 1

\* C6: with 4 workers, the tasks dispatched by the broker to the fabric and
\* not yet returned as results are at most 4 at every instant.
C6_AtMostFourOutstanding ==
    conf.size - 1 = IntakeWorkers => dispatched - returned <= CapacityRequest

\* C7: the tasks received by the task-pull loop and not yet returned as a
\* result are at most the ready workers observed so far plus the capacity of
\* the pending-task queue.
C7_InFlightBound ==
    task_recv_counter - results_pushed <= ready_observed + PendingTaskMax

\* C12: on a STOP shutdown the result-push loop drains its queue: when it
\* has exited, every result put on the pending-result queue has been sent.
C12_DrainedOnExit == push_pc = "done" => pending_result_queue = << >>

\* C18: the task-handle map holds an entry exactly while its handle is
\* pending: its keys are the task_ids of the unsettled handles.
C18_KeysAreUnsettled == \A t \in DOMAIN tasks : tasks[t] = "pending"

\* One message is taken from incoming_q by the demultiplexer in this step
DemuxStep ==
    /\ demux_pc = "run"
    /\ incoming_q # << >>
    /\ incoming_q' = Tail(incoming_q)

NoTaskId(msg) == msg # NoneMsg /\ msg.task_id = 0
NeitherField(msg) ==
    msg.task_id # 0 /\ msg.fields \cap {"result", "exception"} = {}

\* C15 as stated: a message with no task_id, or with a task_id but neither a
\* result nor an exception field, makes the demultiplexer fail with
\* BadMessage and exit, and no handle changes state.
C15_Orig ==
    [][(DemuxStep /\ (NoTaskId(Head(incoming_q)) \/ NeitherField(Head(incoming_q))))
          => (demux_pc' = "BadMessage" /\ tasks' = tasks)]_vars

\* C15: a message with no task_id, or with the task_id of a handle of the
\* task map but neither a result nor an exception field, makes the
\* demultiplexer fail with BadMessage and exit, and no handle changes state.
C15_BadMessage ==
    [][(DemuxStep /\ (\/ NoTaskId(Head(incoming_q))
                      \/ /\ NeitherField(Head(incoming_q))
                         /\ Head(incoming_q).task_id \in DOMAIN tasks))
          => (demux_pc' = "BadMessage" /\ tasks' = tasks)]_vars

\* The thread has ended with BadMessage while a handle is pending
C15_Witness ==
    /\ demux_pc = "BadMessage"
    /\ \E t \in DOMAIN tasks : tasks[t] = "pending"

\* C16: a result message with both a result and an exception field is
\* rejected by the demultiplexer: it settles no handle.
C16_BothRejected ==
    [][(DemuxStep /\ {"result", "exception"} \subseteq Head(incoming_q).fields)
          => (tasks' = tasks /\ set_calls' = set_calls)]_vars

\* C17: when the exception bytes of a result message for a task of the map
\* fail to deserialize, the demultiplexer rejects that task's handle with a
\* DeserializationError, leaves every other handle unchanged and continues
\* its loop.
C17_DeserializationError ==
    [][(/\ DemuxStep
        /\ Head(incoming_q).task_id \in DOMAIN tasks
        /\ Head(incoming_q).fields = {"exception"}
        /\ ~Head(incoming_q).good)
          => (/\ tasks' = [tasks EXCEPT ![Head(incoming_q).task_id] =
                                           "DeserializationError"]
              /\ demux_pc' = "run")]_vars

\* C13: after shutdown() is called the demultiplexer thread eventually exits.
C13_DemuxExits == shut ~> (demux_pc # "run")

\* C19: if a provider submission of start() returns a falsy handle, start()
\* fails with ScalingFailed, submits no further block and does not record
\* the falsy handle among the engines.
C19_ScalingFailed ==
    /\ \A i \in 1 .. Len(returned_handles) :
          returned_handles[i] = 0 =>
              (start_pc = "ScalingFailed" /\ i = Len(returned_handles))
    /\ \A i \in 1 .. Len(engines) : engines[i] # 0

\* start() has failed on the falsy handle of its third submission
C19_Witness ==
    /\ start_pc = "ScalingFailed"
    /\ Len(returned_handles) = 3
    /\ returned_handles[3] = 0
    /\ Len(engines) = 2

\* C20: when the broker's ports have not arrived within the window, start()
\* fails with InitTimeout, and the provider is asked for no block.
C20_InitTimeout ==
    [][(start_pc = "wait_ports" /\ start_pc' \notin {"wait_ports", "launch"})
          => (start_pc' = "InitTimeout" /\ returned_handles' = << >>)]_vars

\* C14: while the fabric runs, the task-pull loop sends a heartbeat at least
\* once in every interval of heartbeat_period / 2 (one unit of the clock is
\* allowed for the loop to notice that the heartbeat is due).
C14_HeartbeatOnTime ==
    (pull_pc \in {"loop", "request", "poll", "put"} /\ ~kill_event)
        => 2 * beat_age <= HeartbeatPeriod + 2

\* C11: once the kill flag is set by the STOP batch, the task-pull loop and
\* the result-push loop exit and the main loop leaves its loop, joins both
\* threads and returns from start().
C11_StopTerminates ==
    kill_event ~> (pull_pc = "done" /\ push_pc = "done" /\ main_pc = "exited")


C22_RequestWithinReady ==
    [][(pull_pc = "request" /\ Len(task_incoming_out') > Len(task_incoming_out)) =>
          /\ Len(ready_worker_queue) > 0
          /\ task_incoming_out'[Len(task_incoming_out')]
                 <= Len(ready_worker_queue)]_vars


\* ------------------------------------------- messages with another tag
\* The messages in transit to rank 0 whose tag is neither RESULT_TAG nor
\* TASK_REQUEST_TAG
UnknownTag(tag) == tag # RESULT_TAG /\ tag # TASK_REQUEST_TAG
StrayCount ==
    SeqSumOf([r \in Ranks |->
        Cardinality({i \in 1 .. Len(mpi_in[r]) : UnknownTag(mpi_in[r][i].tag)})])

\* A rank sends rank 0 a message with another tag
StrayMessage(r) ==
    /\ StrayCount < MaxStray
    /\ worker_pc[r] \notin {"start", "barrier"}
    /\ mpi_in' = [mpi_in EXCEPT ![r] = Append(@, [tag |-> StrayTag, body |-> NoMsg])]
    /\ UNCHANGED <<confVars, execVars, clientVars, brokerVars, pullVars, pushVars,
                   mainVars, workerVars>>
    /\ UNCHANGED <<outgoing_q, incoming_q, task_incoming_in, task_incoming_out,
                   result_outgoing, pending_task_queue, pending_result_queue,
                   ready_worker_queue, kill_event, barrier, mpi_out>>

\* A message with another tag is probed: the else branch counts the event and
\* logs the tag; it calls no receive
MainUnknownTag ==
    /\ main_pc = "probe"
    /\ counter <= MaxEventsPerRound
    /\ \E p \in Ranks : mpi_in[p] # << >> /\ UnknownTag(Head(mpi_in[p]).tag)
    /\ counter' = counter + 1
    /\ UNCHANGED <<main_pc, this_round, main_msg, round_snapshot,
                   ready_observed, sent_log, results_from>>
    /\ UNCHANGED <<confVars, execVars, clientVars, brokerVars, pullVars, pushVars, workerVars>>
    /\ UNCHANGED <<outgoing_q, incoming_q, task_incoming_in, task_incoming_out,
                   result_outgoing, pending_task_queue, pending_result_queue,
                   ready_worker_queue, kill_event, barrier, mpi_in, mpi_out>>

\* The pipeline with one live worker and messages with another tag
NextStray == NextRun \/ MainUnknownTag \/ \E r \in Ranks : StrayMessage(r)
SpecStray == InitLive /\ [][NextStray]_vars

\* C23: a probed message whose tag is neither RESULT_TAG nor TASK_REQUEST_TAG
\* is dropped: the step of the main loop that handles it removes it from the
\* transport, so the main loop does not see it again.
C23_UnknownTagDropped ==
    [][(main_pc = "probe" /\ main_pc' = "probe" /\ counter' = counter + 1) =>
          StrayCount' < StrayCount]_vars


\* C24: the pending-result queue has capacity 10,000: the main loop's put of
\* a received result does not block while fewer than 10,000 results are
\* queued.
C24_ResultQueueCapacity ==
    (main_pc = "put_result" /\ Len(pending_result_queue) < 10000)
        => ENABLED MainPutResult


\* ------------------------------------------------------------ scale_out()
\* scale_out() on a started executor: with a provider, provider.submit
\* returns a handle (0: a falsy one), which is appended to self.engines and
\* returned; without one, an error is logged and None is returned
ScaleOut ==
    /\ start_pc = "returned"
    /\ Len(returned_handles) < exec_conf.init_blocks + MaxScaleOut
    /\ IF exec_conf.provider
       THEN \E r \in 0 .. MaxHandle :
              /\ returned_handles' = Append(returned_handles, r)
              /\ engines' = Append(engines, r)
       ELSE UNCHANGED <<engines, returned_handles>>
    /\ scale_pc' = "returned"
    /\ UNCHANGED <<exec_conf, start_pc, is_alive, shut>>
    /\ UNCHANGED <<confVars, clientVars, brokerVars, pullVars, pushVars,
                   mainVars, workerVars, pipeVars>>

\* start() followed by calls of scale_out()
NextScale == NextStart \/ ScaleOut
SpecScale == InitStart /\ [][NextScale]_vars

\* C25: when the provider's submit returns a falsy handle to scale_out(),
\* scale_out() fails with ScalingFailed and adds nothing to self.engines.
C25_ScaleOutFails ==
    [][(/\ start_pc = "returned"
        /\ Len(returned_handles') > Len(returned_handles)
        /\ Falsy(returned_handles'[Len(returned_handles')]))
          => (scale_pc' = "ScalingFailed" /\ engines' = engines)]_vars


\* C26: submit() inserts the handle into self.tasks before it puts the task
\* on the outgoing socket: in every interleaving of submit() with the
\* demultiplexer thread, the task_id of every task on the outgoing socket and
\* of every result on the result socket is a key of self.tasks, so the
\* demultiplexer never fails to find the handle of a result it processes.
C26_HandleInserted ==
    /\ demux_pc # "KeyError"
    /\ \A i \in 1 .. Len(outgoing_q) : outgoing_q[i].task_id \in DOMAIN tasks
    /\ \A i \in 1 .. Len(incoming_q) : incoming_q[i].task_id \in DOMAIN tasks

\* The demultiplexer has settled the handle of one task while submit() of
\* the next task is between its insert and its put
C26_Witness ==
    /\ client_pc = "put"
    /\ client_msg \in DOMAIN tasks
    /\ \E t \in DOMAIN tasks : t # client_msg /\ tasks[t] # "pending"


\* ------------------------------------------- more workers than queue slots
\* A fabric of CrowdWorkers workers whose coordinator was given
\* max_queue_size = SmallQueueSize, before the first submit(): every rank has
\* passed the barrier, the task requests of the ranks 1 .. CrowdQueued were
\* received and put on the ready-worker queue in this order, the other ranks
\* are about to send their first task request.  No task is submitted.
InitCrowd ==
    /\ conf = [size |-> CrowdWorkers + 1, max_queue_size |-> SmallQueueSize,
               ntasks |-> 0]
    /\ tasks = << >>
    /\ next_id = 1
    /\ client_pc = "idle"
    /\ client_msg = 0
    /\ outgoing_q = << >>
    /\ incoming_q = << >>
    /\ demux_pc = "run"
    /\ set_calls = << >>
    /\ sent_log = << >>
    /\ ExecutorStarted
    /\ broker_alive = TRUE
    /\ inbound = << >>
    /\ capacity = 0
    /\ dispatched = 0
    /\ returned = 0
    /\ requested = 0
    /\ task_incoming_in = << >>
    /\ task_incoming_out = << >>
    /\ result_outgoing = << >>
    /\ barrier = 0 .. CrowdWorkers
    /\ main_pc = "probe"
    /\ counter = Min(MaxEventsPerRound, CrowdWorkers + 1)
    /\ this_round = 0
    /\ main_msg = NoRecv
    /\ round_snapshot = NoRound
    /\ ready_worker_queue = [r \in 1 .. CrowdQueued |-> r]
    /\ ready_observed = CrowdQueued
    /\ results_from = [r \in 1 .. CrowdWorkers |-> 0]
    /\ pull_pc = "loop"
    /\ pull_batch = << >>
    /\ task_recv_counter = 0
    /\ beat_age = 0
    /\ push_pc = "loop"
    /\ results_pushed = 0
    /\ kill_event = FALSE
    /\ pending_task_queue = << >>
    /\ pending_result_queue = << >>
    /\ mpi_in = [r \in 1 .. CrowdWorkers |-> << >>]
    /\ mpi_out = [r \in 1 .. CrowdWorkers |-> << >>]
    /\ worker_pc = [r \in 1 .. CrowdWorkers |->
                       IF r <= CrowdQueued THEN "recv" ELSE "request"]
    /\ worker_req = [r \in 1 .. CrowdWorkers |-> 0]
    /\ worker_sent = [r \in 1 .. CrowdWorkers |->
                         IF r <= CrowdQueued THEN <<1, 0, 0>> ELSE <<0, 0, 0>>]

\* The workers' task requests and the main loop's rounds
NextCrowd ==
    \/ MainRecvRequest \/ MainPutWorker \/ MainProbeEnd \/ MainRoundEnd
    \/ \E r \in Ranks : WorkerRequest(r)
SpecCrowd == InitCrowd /\ [][NextCrowd]_vars

\* C27: for any number of worker ranks the ready-worker queue is not full at
\* the moment the main loop puts a rank on it, so the put, whose only
\* consumer is the main loop itself, never blocks.
C27_ReadyQueueNeverFull ==
    main_pc = "put_worker" => Len(ready_worker_queue) < ReadyWorkerMax


\* Task requests the main loop has received from rank r: those r has sent
\* and that are no longer in transit
RequestsReceived(r) ==
    worker_sent[r][1]
        - Cardinality({i \in 1 .. Len(mpi_in[r]) : mpi_in[r][i].tag = TASK_REQUEST_TAG})

\* C28: at every instant each rank occurs at most once in the ready-worker
\* queue; a rank in the ready-worker queue has no task assigned to it (no
\* task is on its way to it and it executes none); and the tasks sent to a
\* rank are at most the task requests received from it.
C28_ReadyRanks ==
    \A r \in Ranks :
        /\ Count(ready_worker_queue, r) <= 1
        /\ Count(ready_worker_queue, r) = 1 =>
               (mpi_out[r] = << >> /\ worker_req[r] = 0 /\ worker_pc[r] = "recv")
        /\ SentTo(r) <= RequestsReceived(r)

\* A rank is in the ready-worker queue again after a task, while the result
\* of that task is still on its way to rank 0
C28_Witness ==
    \E r \in Ranks :
        /\ Count(ready_worker_queue, r) = 1
        /\ SentTo(r) = 1
        /\ HasTag(mpi_in[r], RESULT_TAG)


\* C29: a result message whose task_id is not a key of self.tasks settles no
\* handle and ends the demultiplexer thread (with KeyError); once the thread
\* has ended so, it takes no further message from the result socket and no
\* handle is settled any more.
C29_UnknownTaskId ==
    [][/\ (/\ DemuxStep
           /\ Head(incoming_q).task_id # 0
           /\ Head(incoming_q).task_id \notin DOMAIN tasks)
          => (demux_pc' = "KeyError" /\ tasks' = tasks /\ set_calls' = set_calls)
       /\ demux_pc = "KeyError"
          => (/\ demux_pc' = "KeyError"
              /\ set_calls' = set_calls
              /\ Len(incoming_q') >= Len(incoming_q)
              /\ \A t \in DOMAIN tasks : tasks'[t] = tasks[t])]_vars

\* The thread has ended with KeyError, a handle is pending and a message
\* that arrived later waits on the result socket
C29_Witness ==
    /\ demux_pc = "KeyError"
    /\ incoming_q # << >>
    /\ \E t \in DOMAIN tasks : tasks[t] = "pending"

====
